---- MODULE Spec2Model ----
(***************************************************************************)
(* Model of potato.py: a BLE cycling-power trainer drives the A button of  *)
(* a virtual Xbox 360 gamepad (threshold mode), while keyboard hooks drive *)
(* the D-pad of the same gamepad from another thread.                      *)
(*                                                                         *)
(* Threads: the asyncio event-loop thread runs KickrController.run() and   *)
(* the notification callback handle_power_notify (which has no await and   *)
(* so runs to completion with respect to run()); the keyboard hook thread  *)
(* runs the four lambdas of setup_keyboard_mapping.  Both threads call     *)
(* press_button / release_button / update on the one VX360Gamepad without  *)
(* a lock; press_button and release_button are a read of report.wButtons   *)
(* followed by a write of it, so each is two steps here.                   *)
(***************************************************************************)
EXTENDS Integers, Sequences, FiniteSets, TLC

VARIABLES
    \* configuration stored by KickrController.__init__ / parsed by main
    ftp, device_name, threshold, disable_dpad,
    \* KickrController.run / connect / start_notifications (event loop)
    stage, sleeping, devices, client, link,
    \* KickrController fields written by handle_power_notify
    power, button_pressed,
    \* the VX360Gamepad: the report being edited and the last report sent
    report, committed,
    \* handle_power_notify in progress: position, argument, branch, RMW temp
    bpc, data, bop, blocal,
    \* keyboard hook in progress: position, (key, kind), RMW temp; key state
    kpc, khook, klocal, keysDown,
    \* history (ghost): attempts, handled samples, emitted commands, callbacks
    scanAttempts, connectAttempts, subscribeAttempts,
    hist, cmds, log, commits, keyEvents,
    \* a stand-alone call of parse_cycling_power: argument and return value
    pbuf, pret

vars == << ftp, device_name, threshold, disable_dpad,
           stage, sleeping, devices, client, link,
           power, button_pressed, report, committed,
           bpc, data, bop, blocal,
           kpc, khook, klocal, keysDown,
           scanAttempts, connectAttempts, subscribeAttempts,
           hist, cmds, log, commits, keyEvents,
           pbuf, pret >>

configVars   == << ftp, device_name, threshold, disable_dpad >>
sessionVars  == << stage, sleeping, devices, client, link,
                   scanAttempts, connectAttempts, subscribeAttempts >>
handlerVars  == << power, button_pressed, bpc, data, bop, blocal,
                   hist, cmds, log >>
keyboardVars == << kpc, khook, klocal, keysDown, keyEvents >>
parseVars    == << pbuf, pret >>

(***************************************************************************)
(* Bounds of the model.                                                    *)
(***************************************************************************)
\* notifications handled while keyboard hooks may run concurrently
MaxNotif == 3
\* notifications handled in the keyboard-free specification SpecSeq
MaxSeqLen == 5
\* keyboard events delivered
MaxKeyEvents == 2
\* length of the buffers given to a stand-alone parse_cycling_power call
MaxBufLen == 5
\* devices in one discovery result of the scan specification SpecScan
MaxDevices == 2

(***************************************************************************)
(* Strings are sequences of one-character strings, so that upper() and the *)
(* substring test of connect() are computed.                               *)
(***************************************************************************)
Upper(c) ==
    CASE c = "k" -> "K"
      [] c = "i" -> "I"
      [] c = "c" -> "C"
      [] c = "r" -> "R"
      [] c = "w" -> "W"
      [] c = "a" -> "A"
      [] c = "h" -> "H"
      [] c = "o" -> "O"
      [] c = "e" -> "E"
      [] OTHER   -> c

StrUpper(s) == [i \in 1..Len(s) |-> Upper(s[i])]

\* Python's `sub in s` for strings
Contains(sub, s) ==
    \E i \in 0..(Len(s) - Len(sub)) :
        \A j \in 1..Len(sub) : s[i + j] = sub[j]

NoName == << >>
NameKickr == << "K", "i", "c", "k", "r" >>
NameKICKR == << "K", "I", "C", "K", "R" >>
NameTacx  == << "T", "A", "C", "X" >>

NameWahooKickrCore ==
    << "W", "a", "h", "o", "o", " ", "K", "i", "c", "k", "r", " ", "C", "o", "r", "e" >>
NameTacxNeo == << "T", "A", "C", "X", " ", "N", "E", "O" >>

\* --device-name arguments
DeviceNameArgs == { << "k", "i", "c", "k" >> }
\* --ftp arguments
FtpArgs == { 230 }
\* --threshold arguments
ThresholdArgs == { 0, 50 }

\* what BleakScanner.discover() may return
DeviceLists ==
    { << >>,
      << [name |-> NoName, address |-> 1], [name |-> NameTacx, address |-> 2] >>,
      << [name |-> NameTacx, address |-> 1], [name |-> NameKickr, address |-> 2],
         [name |-> NameKICKR, address |-> 3] >>,
      << [name |-> NameKICKR, address |-> 3] >> }

\* self.client = None: no address
None == 0
\* next(..., None): no device
NoDevice == [name |-> NoName, address |-> None]

(***************************************************************************)
(* parse_cycling_power                                                     *)
(***************************************************************************)
Bytes == 0..255

\* mutant: the two bytes read as an unsigned integer (signed=False)
FromBytesLittleUnsigned(lo, hi) == lo + 256 * hi

\* int.from_bytes(<<lo, hi>>, byteorder='little', signed=True)
FromBytesLittleSigned(lo, hi) ==
    LET u == lo + 256 * hi
    IN  IF u >= 32768 THEN u - 65536 ELSE u

\* mutant: the length check is off by one and a 3-byte packet yields its low byte
parse_cycling_power_Partial(d) ==
    IF Len(d) < 3 THEN 0
    ELSE IF Len(d) < 4 THEN d[3]
    ELSE FromBytesLittleSigned(d[3], d[4])

\* data is 1-indexed here: Python's data[2:4] is <<data[3], data[4]>>
parse_cycling_power(d) ==
    IF Len(d) < 4 THEN 0 ELSE FromBytesLittleSigned(d[3], d[4])

\* a Cycling Power Measurement packet carrying w watts (flags 0)
Packet(w) ==
    LET u == IF w < 0 THEN w + 65536 ELSE w
    IN  << 0, 0, u % 256, u \div 256 >>

ShortPacket == << 0, 0, 40 >>

\* notifications delivered while keyboard hooks may run
Packets == { ShortPacket, Packet(40), Packet(60) }
\* notifications delivered in SpecSeq
SeqPackets == { ShortPacket, Packet(30), Packet(40), Packet(50), Packet(60), Packet(70) }

ByteSamples == { 0, 1, 100, 127, 128, 255 }
RECURSIVE BuffersOfLen(_)
BuffersOfLen(n) ==
    IF n = 0 THEN { << >> }
    ELSE { Append(b, x) : b \in BuffersOfLen(n - 1), x \in ByteSamples }
Buffers == UNION { BuffersOfLen(n) : n \in 0..MaxBufLen }

(***************************************************************************)
(* The virtual gamepad (vgamepad.VX360Gamepad): wButtons is a bit mask,    *)
(* modelled as the set of buttons whose bit is set.                        *)
(***************************************************************************)
XUSB_GAMEPAD_A == "A"
XUSB_GAMEPAD_DPAD_LEFT == "DPAD_LEFT"
XUSB_GAMEPAD_DPAD_RIGHT == "DPAD_RIGHT"
Buttons == { XUSB_GAMEPAD_A, XUSB_GAMEPAD_DPAD_LEFT, XUSB_GAMEPAD_DPAD_RIGHT }

EmptyReport == [wButtons |-> {}, bRightTrigger |-> 0]

\* press_button: wButtons = wButtons | button, on the value read earlier
PressBits(read, button) == read \cup {button}
\* release_button: wButtons = wButtons & ~button, on the value read earlier
ReleaseBits(read, button) == read \ {button}

(***************************************************************************)
(* Initial state: main() has parsed the arguments, constructed the         *)
(* KickrController, registered the keyboard hooks unless --disable-dpad,   *)
(* and not yet scheduled run().                                            *)
(***************************************************************************)
InitController ==
    /\ ftp \in FtpArgs
    /\ device_name \in { StrUpper(a) : a \in DeviceNameArgs }
    /\ threshold \in ThresholdArgs
    /\ client = None
    /\ power = 0
    /\ button_pressed = FALSE
    /\ report = EmptyReport
    /\ committed = EmptyReport

InitRest ==
    /\ stage = "Idle"
    /\ sleeping = FALSE
    /\ devices = << >>
    /\ link = FALSE
    /\ bpc = "idle"
    /\ data = << >>
    /\ bop = "none"
    /\ blocal = {}
    /\ kpc = "idle"
    /\ khook = << "none", "none" >>
    /\ klocal = {}
    /\ keysDown = {}
    /\ scanAttempts = 0
    /\ connectAttempts = 0
    /\ subscribeAttempts = 0
    /\ hist = << >>
    /\ cmds = << >>
    /\ log = << >>
    /\ commits = 0
    /\ keyEvents = 0
    /\ pret = << >>

Init ==
    /\ InitController
    /\ disable_dpad \in BOOLEAN
    /\ InitRest
    /\ pbuf = << >>

(***************************************************************************)
(* KickrController.connect / start_notifications / run, on the event loop. *)
(* stage is the position of run(): the await it is suspended in, or the    *)
(* reason it returned.                                                     *)
(***************************************************************************)
\* mutant: the advertised name is compared as it is, not upper-cased
Eligible_CaseSensitive(d, filter) ==
    /\ d.name # NoName
    /\ Contains(filter, d.name)

\* the generator condition of connect(): d.name and self.device_name in d.name.upper()
Eligible(d, filter) ==
    /\ d.name # NoName
    /\ Contains(filter, StrUpper(d.name))

\* next((d for d in devices if ...), None)
FirstMatch(ds, filter) ==
    IF \E i \in 1..Len(ds) : Eligible(ds[i], filter)
    THEN ds[CHOOSE i \in 1..Len(ds) :
                /\ Eligible(ds[i], filter)
                /\ \A j \in 1..(i - 1) : ~Eligible(ds[j], filter)]
    ELSE NoDevice

RunReturned == stage \in { "ScanTimeout", "NotFound", "ConnectFailed" }
InIdleLoop  == stage \in { "Subscribed", "SubscribeFailed" }

\* main schedules run(); run calls connect(), which awaits the scan
StartRun ==
    /\ stage = "Idle"
    /\ stage' = "Scanning"
    /\ scanAttempts' = scanAttempts + 1
    /\ UNCHANGED << sleeping, devices, client, link, connectAttempts, subscribeAttempts >>
    /\ UNCHANGED << configVars, handlerVars, keyboardVars, parseVars, report, committed, commits >>

\* asyncio.wait_for raises TimeoutError: connect() returns False, run() returns
ScanTimeout ==
    /\ stage = "Scanning"
    /\ stage' = "ScanTimeout"
    /\ UNCHANGED << sleeping, devices, client, link,
                    scanAttempts, connectAttempts, subscribeAttempts >>
    /\ UNCHANGED << configVars, handlerVars, keyboardVars, parseVars, report, committed, commits >>

\* discover() returns ds; no eligible device: connect() returns False, run() returns
ScanComplete(ds) ==
    /\ stage = "Scanning"
    /\ devices' = ds
    /\ stage' = IF FirstMatch(ds, device_name) = NoDevice THEN "NotFound" ELSE "Found"
    /\ UNCHANGED << sleeping, client, link,
                    scanAttempts, connectAttempts, subscribeAttempts >>
    /\ UNCHANGED << configVars, handlerVars, keyboardVars, parseVars, report, committed, commits >>

\* self.client = BleakClient(device.address); await self.client.connect()
ConnectStart ==
    /\ stage = "Found"
    /\ client' = FirstMatch(devices, device_name).address
    /\ stage' = "Connecting"
    /\ connectAttempts' = connectAttempts + 1
    /\ UNCHANGED << sleeping, devices, link, scanAttempts, subscribeAttempts >>
    /\ UNCHANGED << configVars, handlerVars, keyboardVars, parseVars, report, committed, commits >>

\* connect() returns True; run() calls start_notifications(), which awaits start_notify
ConnectOk ==
    /\ stage = "Connecting"
    /\ stage' = "Connected"
    /\ link' = TRUE
    /\ devices' = << >>
    /\ subscribeAttempts' = subscribeAttempts + 1
    /\ UNCHANGED << sleeping, client, scanAttempts, connectAttempts >>
    /\ UNCHANGED << configVars, handlerVars, keyboardVars, parseVars, report, committed, commits >>

\* mutant: a failed connect starts a new scan
ConnectFail_Rescan ==
    /\ stage = "Connecting"
    /\ stage' = "Scanning"
    /\ devices' = << >>
    /\ scanAttempts' = scanAttempts + 1
    /\ UNCHANGED << sleeping, client, link, connectAttempts, subscribeAttempts >>
    /\ UNCHANGED << configVars, handlerVars, keyboardVars, parseVars, report, committed, commits >>

\* client.connect() raises: connect() returns False, run() returns
ConnectFail ==
    /\ stage = "Connecting"
    /\ stage' = "ConnectFailed"
    /\ devices' = << >>
    /\ UNCHANGED << sleeping, client, link,
                    scanAttempts, connectAttempts, subscribeAttempts >>
    /\ UNCHANGED << configVars, handlerVars, keyboardVars, parseVars, report, committed, commits >>

\* start_notify returns: the callback is registered
SubscribeOk ==
    /\ stage = "Connected"
    /\ link
    /\ stage' = "Subscribed"
    /\ UNCHANGED << sleeping, devices, client, link,
                    scanAttempts, connectAttempts, subscribeAttempts >>
    /\ UNCHANGED << configVars, handlerVars, keyboardVars, parseVars, report, committed, commits >>

\* mutant: a failed subscription is attempted again
SubscribeFail_Resubscribe ==
    /\ stage = "Connected"
    /\ subscribeAttempts < 3
    /\ subscribeAttempts' = subscribeAttempts + 1
    /\ UNCHANGED << stage, sleeping, devices, client, link, scanAttempts, connectAttempts >>
    /\ UNCHANGED << configVars, handlerVars, keyboardVars, parseVars, report, committed, commits >>

\* mutant: a failed subscription propagates and run() returns
SubscribeFail_Exit ==
    /\ stage = "Connected"
    /\ stage' = "ConnectFailed"
    /\ UNCHANGED << sleeping, devices, client, link,
                    scanAttempts, connectAttempts, subscribeAttempts >>
    /\ UNCHANGED << configVars, handlerVars, keyboardVars, parseVars, report, committed, commits >>

\* start_notify raises: the exception is printed and swallowed
SubscribeFail ==
    /\ stage = "Connected"
    /\ stage' = "SubscribeFailed"
    /\ UNCHANGED << sleeping, devices, client, link,
                    scanAttempts, connectAttempts, subscribeAttempts >>
    /\ UNCHANGED << configVars, handlerVars, keyboardVars, parseVars, report, committed, commits >>

\* while True: await asyncio.sleep(1)  -- run() suspends
RunSleep ==
    /\ InIdleLoop
    /\ ~sleeping
    /\ sleeping' = TRUE
    /\ UNCHANGED << stage, devices, client, link,
                    scanAttempts, connectAttempts, subscribeAttempts >>
    /\ UNCHANGED << configVars, handlerVars, keyboardVars, parseVars, report, committed, commits >>

\* the sleep ends and run() loops; the loop runs one callback at a time
RunWake ==
    /\ InIdleLoop
    /\ sleeping
    /\ bpc = "idle"
    /\ sleeping' = FALSE
    /\ UNCHANGED << stage, devices, client, link,
                    scanAttempts, connectAttempts, subscribeAttempts >>
    /\ UNCHANGED << configVars, handlerVars, keyboardVars, parseVars, report, committed, commits >>

\* the trainer drops the connection; the program has no disconnect handling
Disconnect ==
    /\ stage \in { "Connected", "Subscribed", "SubscribeFailed" }
    /\ link
    /\ link' = FALSE
    /\ UNCHANGED << stage, sleeping, devices, client,
                    scanAttempts, connectAttempts, subscribeAttempts >>
    /\ UNCHANGED << configVars, handlerVars, keyboardVars, parseVars, report, committed, commits >>

Session ==
    \/ StartRun
    \/ ScanTimeout
    \/ \E ds \in DeviceLists : ScanComplete(ds)
    \/ ConnectStart
    \/ ConnectOk
    \/ ConnectFail
    \/ SubscribeOk
    \/ SubscribeFail
    \/ RunSleep
    \/ RunWake
    \/ Disconnect

(***************************************************************************)
(* KickrController.handle_power_notify, on the event loop thread.           *)
(***************************************************************************)
\* mutant: the comparison is strict
IsActiveStrict(p, t) == p > t

\* is_active = self.power >= self.threshold
IsActive(p, t) == p >= t

\* mutant: level-triggered, a command on every notification
DecideLevel(active, pressed) == IF active THEN "press" ELSE "release"

\* mutant: the stored state is ignored when pressing
DecideNoMemory(active, pressed) ==
    IF active THEN "press"
    ELSE IF pressed THEN "release"
    ELSE "none"

\* the if / elif of handle_power_notify: which command, if any, to send
Decide(active, pressed) ==
    IF active /\ ~pressed THEN "press"
    ELSE IF ~active /\ pressed THEN "release"
    ELSE "none"

\* a notification arrives: parse, compare, choose the branch
handle_power_notify(d) ==
    /\ stage = "Subscribed"
    /\ link
    /\ sleeping
    /\ bpc = "idle"
    /\ data' = d
    /\ power' = parse_cycling_power(d)
    /\ hist' = Append(hist, power')
    /\ bop' = Decide(IsActive(power', threshold), button_pressed)
    /\ bpc' = IF bop' = "none" THEN "idle" ELSE "button_read"
    /\ UNCHANGED << button_pressed, blocal, cmds, log >>
    /\ UNCHANGED << configVars, sessionVars, keyboardVars, parseVars, report, committed, commits >>

\* gamepad.press_button / release_button (A): read report.wButtons
HandlerButtonRead ==
    /\ bpc = "button_read"
    /\ blocal' = report.wButtons
    /\ bpc' = "button_write"
    /\ UNCHANGED << power, button_pressed, data, bop, hist, cmds, log >>
    /\ UNCHANGED << configVars, sessionVars, keyboardVars, parseVars, report, committed, commits >>

\* the linear trigger mapping: 0 below the threshold, else min(P / F, 1) of 255
TriggerValue(P, F, T) ==
    IF P < T THEN 0
    ELSE IF P >= F THEN 255
    ELSE (255 * P) \div F

\* mutant: the trigger axis of the earlier version is still written
HandlerButtonWrite_Trigger ==
    /\ bpc = "button_write"
    /\ report' = [report EXCEPT
                     !.wButtons = IF bop = "press" THEN PressBits(blocal, XUSB_GAMEPAD_A)
                                                   ELSE ReleaseBits(blocal, XUSB_GAMEPAD_A),
                     !.bRightTrigger = TriggerValue(power, ftp, threshold)]
    /\ cmds' = Append(cmds, [op |-> bop, at |-> Len(hist)])
    /\ blocal' = {}
    /\ bpc' = "update"
    /\ UNCHANGED << power, button_pressed, data, bop, hist, log >>
    /\ UNCHANGED << configVars, sessionVars, keyboardVars, parseVars, committed, commits >>

\* gamepad.press_button / release_button (A): write report.wButtons
HandlerButtonWrite ==
    /\ bpc = "button_write"
    /\ report' = [report EXCEPT !.wButtons =
                     IF bop = "press" THEN PressBits(blocal, XUSB_GAMEPAD_A)
                                      ELSE ReleaseBits(blocal, XUSB_GAMEPAD_A)]
    /\ cmds' = Append(cmds, [op |-> bop, at |-> Len(hist)])
    /\ blocal' = {}
    /\ bpc' = "update"
    /\ UNCHANGED << power, button_pressed, data, bop, hist, log >>
    /\ UNCHANGED << configVars, sessionVars, keyboardVars, parseVars, committed, commits >>

\* mutant: the command is not followed by update()
HandlerUpdate_NoCommit ==
    /\ bpc = "update"
    /\ bpc' = "set_state"
    /\ UNCHANGED << power, button_pressed, data, bop, blocal, hist, cmds, log >>
    /\ UNCHANGED << configVars, sessionVars, keyboardVars, parseVars, report, committed, commits >>

\* self.gamepad.update(): the report is sent to the driver
HandlerUpdate ==
    /\ bpc = "update"
    /\ committed' = report
    /\ commits' = commits + 1
    /\ bpc' = "set_state"
    /\ UNCHANGED << power, button_pressed, data, bop, blocal, hist, cmds, log >>
    /\ UNCHANGED << configVars, sessionVars, keyboardVars, parseVars, report >>

\* mutant: the handler stores the sample in self.threshold
HandlerSetState_WritesThreshold ==
    /\ bpc = "set_state"
    /\ button_pressed' = (bop = "press")
    /\ threshold' = power
    /\ bpc' = "callback"
    /\ UNCHANGED << power, data, bop, blocal, hist, cmds, log >>
    /\ UNCHANGED << ftp, device_name, disable_dpad >>
    /\ UNCHANGED << sessionVars, keyboardVars, parseVars, report, committed, commits >>

\* self.button_pressed = True / False
HandlerSetState ==
    /\ bpc = "set_state"
    /\ button_pressed' = (bop = "press")
    /\ bpc' = "callback"
    /\ UNCHANGED << power, data, bop, blocal, hist, cmds, log >>
    /\ UNCHANGED << configVars, sessionVars, keyboardVars, parseVars, report, committed, commits >>

\* mutant: the callback is handed the state from before the update
HandlerCallback_OldState ==
    /\ bpc = "callback"
    /\ log' = Append(log, [power |-> power, pressed |-> ~button_pressed, at |-> Len(hist)])
    /\ bop' = "none"
    /\ bpc' = "idle"
    /\ UNCHANGED << power, button_pressed, data, blocal, hist, cmds >>
    /\ UNCHANGED << configVars, sessionVars, keyboardVars, parseVars, report, committed, commits >>

\* self.update_callback(self.power, self.button_pressed); the handler returns
HandlerCallback ==
    /\ bpc = "callback"
    /\ log' = Append(log, [power |-> power, pressed |-> button_pressed, at |-> Len(hist)])
    /\ bop' = "none"
    /\ bpc' = "idle"
    /\ UNCHANGED << power, button_pressed, data, blocal, hist, cmds >>
    /\ UNCHANGED << configVars, sessionVars, keyboardVars, parseVars, report, committed, commits >>

HandlerSteps ==
    \/ HandlerButtonRead
    \/ HandlerButtonWrite
    \/ HandlerUpdate
    \/ HandlerSetState
    \/ HandlerCallback

(***************************************************************************)
(* setup_keyboard_mapping: the four hooks, on the keyboard hook thread.     *)
(* Hooks exist only when main() registered them (not --disable-dpad).       *)
(***************************************************************************)
Keys == { "left", "right" }

\* mutant: the two keys are bound to each other's D-pad button
HookButton_Swapped(k) ==
    IF k = "left" THEN XUSB_GAMEPAD_DPAD_RIGHT ELSE XUSB_GAMEPAD_DPAD_LEFT

HookButton(k) ==
    IF k = "left" THEN XUSB_GAMEPAD_DPAD_LEFT ELSE XUSB_GAMEPAD_DPAD_RIGHT

\* mutant: the hooks stop being served once the BLE session has failed
KeyPress_WhileSessionAlive(k) ==
    /\ stage \notin { "ScanTimeout", "NotFound", "ConnectFailed", "SubscribeFailed" }
    /\ kpc = "idle"
    /\ keysDown' = keysDown \cup {k}
    /\ keyEvents' = keyEvents + 1
    /\ IF disable_dpad
       THEN UNCHANGED << kpc, khook >>
       ELSE kpc' = "button_read" /\ khook' = << k, "press" >>
    /\ UNCHANGED << klocal >>
    /\ UNCHANGED << configVars, sessionVars, handlerVars, parseVars, report, committed, commits >>

\* mutant: the press hooks are registered whatever --disable-dpad says
KeyPress_AlwaysHooked(k) ==
    /\ kpc = "idle"
    /\ keysDown' = keysDown \cup {k}
    /\ keyEvents' = keyEvents + 1
    /\ kpc' = "button_read"
    /\ khook' = << k, "press" >>
    /\ UNCHANGED << klocal >>
    /\ UNCHANGED << configVars, sessionVars, handlerVars, parseVars, report, committed, commits >>

\* a key goes down (or auto-repeats); the on_press_key hook starts, if registered
KeyPress(k) ==
    /\ kpc = "idle"
    /\ keysDown' = keysDown \cup {k}
    /\ keyEvents' = keyEvents + 1
    /\ IF disable_dpad
       THEN UNCHANGED << kpc, khook >>
       ELSE kpc' = "button_read" /\ khook' = << k, "press" >>
    /\ UNCHANGED << klocal >>
    /\ UNCHANGED << configVars, sessionVars, handlerVars, parseVars, report, committed, commits >>

\* a key goes up; the on_release_key hook starts, if registered
KeyRelease(k) ==
    /\ kpc = "idle"
    /\ k \in keysDown
    /\ keysDown' = keysDown \ {k}
    /\ keyEvents' = keyEvents + 1
    /\ IF disable_dpad
       THEN UNCHANGED << kpc, khook >>
       ELSE kpc' = "button_read" /\ khook' = << k, "release" >>
    /\ UNCHANGED << klocal >>
    /\ UNCHANGED << configVars, sessionVars, handlerVars, parseVars, report, committed, commits >>

\* gamepad.press_button / release_button (D-pad): read report.wButtons
HookButtonRead ==
    /\ kpc = "button_read"
    /\ klocal' = report.wButtons
    /\ kpc' = "button_write"
    /\ UNCHANGED << khook, keysDown, keyEvents >>
    /\ UNCHANGED << configVars, sessionVars, handlerVars, parseVars, report, committed, commits >>

\* gamepad.press_button / release_button (D-pad): write report.wButtons
HookButtonWrite ==
    /\ kpc = "button_write"
    /\ report' = [report EXCEPT !.wButtons =
                     IF khook[2] = "press" THEN PressBits(klocal, HookButton(khook[1]))
                                           ELSE ReleaseBits(klocal, HookButton(khook[1]))]
    /\ klocal' = {}
    /\ kpc' = "update"
    /\ UNCHANGED << khook, keysDown, keyEvents >>
    /\ UNCHANGED << configVars, sessionVars, handlerVars, parseVars, committed, commits >>

\* gamepad.update(): the report is sent to the driver; the hook returns
HookUpdate ==
    /\ kpc = "update"
    /\ committed' = report
    /\ khook' = << "none", "none" >>
    /\ kpc' = "idle"
    /\ UNCHANGED << klocal, keysDown, keyEvents >>
    /\ UNCHANGED << configVars, sessionVars, handlerVars, parseVars, report, commits >>

Keyboard ==
    \/ \E k \in Keys : keyEvents < MaxKeyEvents /\ KeyPress(k)
    \/ \E k \in Keys : keyEvents < MaxKeyEvents /\ KeyRelease(k)
    \/ HookButtonRead
    \/ HookButtonWrite
    \/ HookUpdate

(***************************************************************************)
(* Specifications.                                                         *)
(***************************************************************************)
Notification ==
    \E d \in Packets : Len(hist) < MaxNotif /\ handle_power_notify(d)

NotificationSeq ==
    \E d \in SeqPackets : Len(hist) < MaxSeqLen /\ handle_power_notify(d)

\* the whole program: session, notifications, keyboard
Next == Session \/ Notification \/ HandlerSteps \/ Keyboard

Spec == Init /\ [][Next]_vars

\* the program run with --disable-dpad and no keyboard activity
InitSeq ==
    /\ InitController
    /\ disable_dpad = TRUE
    /\ InitRest
    /\ pbuf = << >>

NextSeq == Session \/ NotificationSeq \/ HandlerSteps

SpecSeq == InitSeq /\ [][NextSeq]_vars

\* one call of parse_cycling_power on an arbitrary buffer
InitParse ==
    /\ InitController
    /\ disable_dpad = TRUE
    /\ InitRest
    /\ pbuf \in Buffers

ParseCall ==
    /\ pret = << >>
    /\ pret' = << parse_cycling_power(pbuf) >>
    /\ UNCHANGED << pbuf, report, committed, commits >>
    /\ UNCHANGED << configVars, sessionVars, handlerVars, keyboardVars >>

NextParse == ParseCall

SpecParse == InitParse /\ [][NextParse]_vars

(***************************************************************************)
(* Properties.                                                             *)
(***************************************************************************)
\* the handler is between choosing a command and storing the new state
Emitting == bpc \in { "button_read", "button_write", "update", "set_state" }

\* was press the state before sample i, judged from the samples alone
ActiveAt(i) == IF i = 0 THEN FALSE ELSE hist[i] >= threshold

\* sample i crosses the threshold
Crossing(i) == ActiveAt(i) # ActiveAt(i - 1)

\* C1: a press or release of A is being emitted only while (P >= threshold)
\* differs from the stored button_pressed, and the emitted commands are
\* press, release, press, ... starting with a press, so no two consecutive
\* commands are equal.
C1_EdgeTriggered ==
    /\ Emitting => /\ (power >= threshold) # button_pressed
                   /\ bop = (IF power >= threshold THEN "press" ELSE "release")
    /\ \A i \in 1..Len(cmds) :
          cmds[i].op = (IF i % 2 = 1 THEN "press" ELSE "release")
    /\ \A i \in 1..(Len(cmds) - 1) : cmds[i].op # cmds[i + 1].op

C1_Witness ==
    /\ Len(cmds) = 3
    /\ bpc = "idle"
    /\ ~disable_dpad

\* C2: once the samples P_1..P_n are handled, a command was emitted at exactly
\* the samples that cross the threshold (the state before P_1 being released),
\* a press on the way up and a release on the way down, at most one per
\* sample, and button_pressed = (P_n >= T), P = T counting as pressed; with
\* T = 50 the samples 40, 60, 60, 30, 70 give press at 2, release at 4,
\* press at 5.
C2_CrossingsExactly ==
    bpc = "idle" =>
        /\ \A i \in 1..Len(hist) :
              Crossing(i) <=>
                 \E j \in 1..Len(cmds) :
                    /\ cmds[j].at = i
                    /\ cmds[j].op = (IF hist[i] >= threshold THEN "press" ELSE "release")
        /\ \A j \in 1..Len(cmds) : cmds[j].at \in 1..Len(hist) /\ Crossing(cmds[j].at)
        /\ \A j \in 1..(Len(cmds) - 1) : cmds[j].at < cmds[j + 1].at
        /\ button_pressed = ActiveAt(Len(hist))
        /\ (threshold = 50 /\ hist = << 40, 60, 60, 30, 70 >>) =>
              cmds = << [op |-> "press", at |-> 2], [op |-> "release", at |-> 4],
                        [op |-> "press", at |-> 5] >>
        /\ (threshold = 50 /\ Len(hist) > 0 /\ hist[Len(hist)] = 50) => button_pressed

C2_Witness ==
    /\ threshold = 50
    /\ hist = << 40, 60, 60, 30, 70 >>
    /\ bpc = "idle"
    /\ Len(cmds) = 3
    /\ button_pressed

\* C3: handling a notification whose power equals that of the notification
\* handled just before it emits no command and leaves button_pressed, the
\* report and the committed report as they were.
C3_Idempotent ==
    [][ ( /\ bpc = "idle"
          /\ Len(hist) >= 1
          /\ hist' = Append(hist, hist[Len(hist)]) )
        => ( /\ bpc' = "idle"
             /\ bop' = "none"
             /\ cmds' = cmds
             /\ commits' = commits
             /\ button_pressed' = button_pressed
             /\ report' = report
             /\ committed' = committed ) ]_vars

C3_Witness ==
    /\ Len(hist) = 2
    /\ hist[1] = 60
    /\ hist[2] = 60
    /\ threshold = 50
    /\ bpc = "idle"
    /\ Len(cmds) = 1
    /\ button_pressed
    /\ XUSB_GAMEPAD_A \in committed.wButtons

\* C4: parse_cycling_power returns 0 for a buffer shorter than 4 bytes and
\* otherwise the value in -32768..32767 congruent modulo 65536 to
\* byte2 + 256 * byte3 (whatever the other bytes are): 0x64 0x00 gives 100,
\* 0xFF 0xFF gives -1.  It always returns an integer.
C4_ParseSigned16 ==
    pret # << >> =>
        LET r == pret[1]
        IN  /\ r \in -32768..32767
            /\ Len(pbuf) < 4 => r = 0
            /\ Len(pbuf) >= 4 =>
                  /\ (r - (pbuf[3] + 256 * pbuf[4])) % 65536 = 0
                  /\ (pbuf[3] = 100 /\ pbuf[4] = 0) => r = 100
                  /\ (pbuf[3] = 255 /\ pbuf[4] = 255) => r = -1

C4_Witness ==
    /\ Len(pbuf) = 5
    /\ pbuf[1] = 1
    /\ pbuf[3] = 255
    /\ pbuf[4] = 255
    /\ pret = << -1 >>

\* C5 as stated: every handled notification is followed by an update, and the
\* committed right-trigger value is the linear mapping of its power.
C5_LinearTriggerEveryNotification ==
    (bpc = "idle" /\ Len(hist) >= 1) =>
        /\ commits = Len(hist)
        /\ committed.bRightTrigger = TriggerValue(power, ftp, threshold)

\* C5 amended: there is no linear trigger mode.  The right-trigger axis is
\* never written (it is 0 in the report and in what was committed), and the
\* handler has committed once per notification whose (P >= T) differs from
\* the state before it, not once per notification.
C5_NoTriggerOnlyCrossings ==
    /\ report.bRightTrigger = 0
    /\ committed.bRightTrigger = 0
    /\ bpc = "idle" =>
          commits = Cardinality({ i \in 1..Len(hist) : Crossing(i) })

C5_Witness ==
    /\ threshold = 50
    /\ hist = << 40, 60, 60 >>
    /\ bpc = "idle"
    /\ commits = 1
    /\ XUSB_GAMEPAD_A \in committed.wButtons
    /\ committed.bRightTrigger = 0

\* C6: every press or release of A emitted by the handler is followed by the
\* handler's own update() before it returns: outside the step between the
\* command and its update the handler has committed as often as it has
\* emitted, and when a notification can start (no hook holding an unsent
\* write) the A bit of the report is the committed one.
C6_CommitFollowsCommand ==
    /\ bpc # "update" => commits = Len(cmds)
    /\ bpc = "update" => Len(cmds) = commits + 1
    /\ (bpc = "idle" /\ kpc # "update") =>
          ((XUSB_GAMEPAD_A \in report.wButtons) <=> (XUSB_GAMEPAD_A \in committed.wButtons))

C6_Witness ==
    /\ bpc = "idle"
    /\ Len(cmds) = 2
    /\ commits = 2
    /\ keyEvents >= 1
    /\ XUSB_GAMEPAD_A \notin committed.wButtons

\* C7 as stated: with both threads at rest, the committed A button equals
\* button_pressed and the committed D-pad left / right buttons are down
\* exactly when the last event of the left / right key was a press.
C7_NoInteraction ==
    (bpc = "idle" /\ kpc = "idle" /\ ~disable_dpad) =>
        /\ (XUSB_GAMEPAD_A \in committed.wButtons) <=> button_pressed
        /\ (XUSB_GAMEPAD_DPAD_LEFT \in committed.wButtons) <=> ("left" \in keysDown)
        /\ (XUSB_GAMEPAD_DPAD_RIGHT \in committed.wButtons) <=> ("right" \in keysDown)

StageRank(st) ==
    CASE st = "Idle" -> 0
      [] st = "Scanning" -> 1
      [] st \in { "Found", "NotFound", "ScanTimeout" } -> 2
      [] st \in { "Connecting" } -> 3
      [] st \in { "Connected", "ConnectFailed" } -> 4
      [] st \in { "Subscribed", "SubscribeFailed" } -> 5

\* C8: the stage never moves back; Connecting is entered only from Found,
\* the subscription is attempted (Connected) only from Connecting, Subscribed
\* is entered only from Connected, and a notification is handled or an A
\* command emitted only in stage Subscribed.
C8_StageOrder ==
    [][ /\ StageRank(stage') >= StageRank(stage)
        /\ (stage' # stage /\ stage' = "Scanning") => stage = "Idle"
        /\ (stage' # stage /\ stage' \in { "Found", "NotFound" }) => stage = "Scanning"
        /\ (stage' # stage /\ stage' = "Connecting") => stage = "Found"
        /\ (stage' # stage /\ stage' = "Connected") => stage = "Connecting"
        /\ (stage' # stage /\ stage' = "Subscribed") => stage = "Connected"
        /\ connectAttempts' # connectAttempts => stage = "Found"
        /\ subscribeAttempts' # subscribeAttempts => (stage = "Connecting" /\ stage' = "Connected")
        /\ (hist' # hist \/ cmds' # cmds \/ bpc' # bpc) =>
              (stage = "Subscribed" /\ stage' = "Subscribed") ]_vars

C8_Witness ==
    /\ stage = "Subscribed"
    /\ Len(cmds) = 2
    /\ scanAttempts = 1
    /\ connectAttempts = 1
    /\ subscribeAttempts = 1

\* C9: scan, connect and subscribe are each attempted at most once; once the
\* scan timed out, no device matched or the connect raised, run() has
\* returned: it stays returned, never subscribes, is not in its idle loop,
\* and no notification is handled and no A command emitted.
C9_NoRetry ==
    /\ [](/\ scanAttempts <= 1
          /\ connectAttempts <= 1
          /\ subscribeAttempts <= 1
          /\ RunReturned =>
                /\ subscribeAttempts = 0
                /\ ~sleeping
                /\ hist = << >>
                /\ cmds = << >>
                /\ bpc = "idle"
                /\ XUSB_GAMEPAD_A \notin committed.wButtons)
    /\ [][RunReturned => stage' = stage]_vars

C9_Witness ==
    /\ stage = "ConnectFailed"
    /\ connectAttempts = 1
    /\ keyEvents = 2
    /\ kpc = "idle"

\* C10: after a failed subscription run() is in its idle loop (asleep or
\* about to sleep) and stays there: it never returns, handles no
\* notification, and does not subscribe again; and from the moment connect()
\* has succeeded run() never returns.
C10_StallsAfterSubscribeFailure ==
    /\ [](stage = "SubscribeFailed" =>
             /\ sleeping \/ ENABLED RunSleep
             /\ subscribeAttempts = 1
             /\ hist = << >>
             /\ cmds = << >>)
    /\ [][ /\ stage = "SubscribeFailed" => stage' = "SubscribeFailed"
           /\ stage \in { "Connected", "Subscribed", "SubscribeFailed" } =>
                 (~RunReturned' /\ stage' \in { "Connected", "Subscribed", "SubscribeFailed" }) ]_vars

C10_Witness ==
    /\ stage = "SubscribeFailed"
    /\ sleeping
    /\ link
    /\ keyEvents = 2

\* the BLE session has failed: scan timeout, no match, connect or subscribe error
FailedStage == stage \in { "ScanTimeout", "NotFound", "ConnectFailed", "SubscribeFailed" }

\* C11: after any BLE failure the process still serves the keyboard: a key
\* press (and a release of a key that is down) can be delivered, a hook in
\* progress can take its next step, and with the D-pad mapping enabled the
\* committed D-pad left / right buttons are down exactly when the last event
\* of that key was a press, whenever no hook is in progress.
C11_KeyboardSurvivesBleFailure ==
    FailedStage =>
        /\ kpc = "idle" =>
              \A k \in Keys : /\ ENABLED KeyPress(k)
                              /\ k \in keysDown => ENABLED KeyRelease(k)
        /\ kpc # "idle" => ENABLED (HookButtonRead \/ HookButtonWrite \/ HookUpdate)
        /\ (~disable_dpad /\ kpc = "idle") =>
              \A k \in Keys :
                 /\ (HookButton(k) \in committed.wButtons) <=> (k \in keysDown)
                 /\ (HookButton(k) \in report.wButtons) <=> (k \in keysDown)

C11_Witness ==
    /\ stage = "ConnectFailed"
    /\ ~disable_dpad
    /\ kpc = "idle"
    /\ keyEvents = 2
    /\ keysDown = { "left", "right" }
    /\ committed.wButtons = { XUSB_GAMEPAD_DPAD_LEFT, XUSB_GAMEPAD_DPAD_RIGHT }

(***************************************************************************)
(* The scan and device selection alone, over every discovery result of up  *)
(* to MaxDevices devices.                                                  *)
(***************************************************************************)
\* --device-name arguments of the scan specification
ScanNameArgs == { << "k", "i", "c", "k", "r" >>, << "w", "a", "h", "o", "o" >> }

\* advertised names (d.name) of discovered devices
ScanNames == { NoName, NameWahooKickrCore, NameTacxNeo, NameKickr }

RECURSIVE NameListsOfLen(_)
NameListsOfLen(n) ==
    IF n = 0 THEN { << >> }
    ELSE { Append(l, x) : l \in NameListsOfLen(n - 1), x \in ScanNames }

\* discover() results: the i-th discovered device has address i
ScanDeviceLists ==
    { [i \in 1..Len(l) |-> [name |-> l[i], address |-> i]] :
         l \in UNION { NameListsOfLen(n) : n \in 0..MaxDevices } }

InitScan ==
    /\ ftp \in FtpArgs
    /\ device_name \in { StrUpper(a) : a \in ScanNameArgs }
    /\ threshold \in ThresholdArgs
    /\ client = None
    /\ power = 0
    /\ button_pressed = FALSE
    /\ report = EmptyReport
    /\ committed = EmptyReport
    /\ disable_dpad = TRUE
    /\ InitRest
    /\ pbuf = << >>

NextScan ==
    \/ StartRun
    \/ ScanTimeout
    \/ \E ds \in ScanDeviceLists : ScanComplete(ds)
    \/ ConnectStart
    \/ ConnectOk
    \/ ConnectFail

SpecScan == InitScan /\ [][NextScan]_vars

\* letters compared without regard to case
Lower(c) ==
    CASE c = "K" -> "k"
      [] c = "I" -> "i"
      [] c = "C" -> "c"
      [] c = "R" -> "r"
      [] c = "W" -> "w"
      [] c = "A" -> "a"
      [] c = "H" -> "h"
      [] c = "O" -> "o"
      [] c = "E" -> "e"
      [] c = "T" -> "t"
      [] c = "X" -> "x"
      [] c = "N" -> "n"
      [] OTHER   -> c

\* sub occurs in s as a substring, case ignored
ContainsIgnoringCase(sub, s) ==
    \E i \in 0..(Len(s) - Len(sub)) :
        \A j \in 1..Len(sub) : Lower(s[i + j]) = Lower(sub[j])

\* the device at position i of the discovery result is eligible
EligibleAt(i) ==
    /\ Len(devices[i].name) > 0
    /\ ContainsIgnoringCase(device_name, devices[i].name)

\* C12: a discovered device is eligible iff its name is non-empty and
\* contains the configured filter, case ignored ("Wahoo Kickr Core" is
\* eligible for the filters kickr and wahoo, "TACX NEO" and a nameless device
\* for neither); connect() connects to the address of the first eligible
\* device in discovery order, and with no eligible device it ends not-found
\* with no client created and no connection attempted.
C12_FirstEligibleDevice ==
    /\ stage = "NotFound" =>
          /\ \A i \in 1..Len(devices) : ~EligibleAt(i)
          /\ client = None
          /\ connectAttempts = 0
    /\ stage \in { "Found", "Connecting" } =>
          \E i \in 1..Len(devices) :
             /\ EligibleAt(i)
             /\ \A j \in 1..(i - 1) : ~EligibleAt(j)
             /\ stage = "Connecting" => client = devices[i].address
    /\ stage \in { "Found", "NotFound", "Connecting" } =>
          \A i \in 1..Len(devices) :
             /\ devices[i].name = NameWahooKickrCore => EligibleAt(i)
             /\ devices[i].name \in { NameTacxNeo, NoName } => ~EligibleAt(i)
    /\ stage \in { "Connected", "ConnectFailed" } => client # None

C12_Witness ==
    /\ stage = "Connecting"
    /\ Len(devices) = 2
    /\ devices[1].name = NameTacxNeo
    /\ devices[2].name = NameWahooKickrCore
    /\ client = 2
    /\ connectAttempts = 1

\* C13: with --disable-dpad no hook ever runs: the hook thread stays idle, the
\* D-pad bits are never set, a key event changes neither the report nor what
\* is committed, and every change of the report or of the committed report
\* is a step of the notification handler.
C13_DisabledDpadKeyboardInert ==
    /\ [](disable_dpad =>
             /\ kpc = "idle"
             /\ khook = << "none", "none" >>
             /\ report.wButtons \subseteq { XUSB_GAMEPAD_A }
             /\ committed.wButtons \subseteq { XUSB_GAMEPAD_A })
    /\ [][ disable_dpad =>
             /\ keyEvents' # keyEvents =>
                   (report' = report /\ committed' = committed /\ kpc' = "idle")
             /\ (report' # report \/ committed' # committed) =>
                   (bpc \in { "button_write", "update" } /\ stage = "Subscribed") ]_vars

C13_Witness ==
    /\ disable_dpad
    /\ keyEvents = 2
    /\ keysDown = { "left", "right" }
    /\ bpc = "idle"
    /\ committed.wButtons = { XUSB_GAMEPAD_A }

(***************************************************************************)
(* The program when hooks and notification handlers never overlap: a key   *)
(* event is delivered only while no handler is in progress and a           *)
(* notification only while no hook is in progress.                         *)
(***************************************************************************)
NextSerial ==
    \/ Session
    \/ (kpc = "idle" /\ Notification)
    \/ HandlerSteps
    \/ (bpc = "idle" /\ Keyboard)

SpecSerial == Init /\ [][NextSerial]_vars

\* the D-pad button the claim assigns to a key
DpadOf(k) == IF k = "left" THEN "DPAD_LEFT" ELSE "DPAD_RIGHT"

\* C14: with the mapping enabled and no handler overlapping a hook, whenever
\* no hook is in progress the committed D-pad left / right button is down
\* exactly when the last event of the left / right key was a press; a hook
\* ends by committing its own button as pressed (press hook) or released
\* (release hook); and no step of a hook changes the other D-pad button, the
\* A button (in the report or committed) or button_pressed.
C14_DpadFollowsKeys ==
    /\ []((~disable_dpad /\ kpc = "idle") =>
             /\ ("DPAD_LEFT" \in committed.wButtons) <=> ("left" \in keysDown)
             /\ ("DPAD_RIGHT" \in committed.wButtons) <=> ("right" \in keysDown))
    /\ [][ (~disable_dpad /\ kpc' # kpc) =>
             LET hk == IF kpc = "idle" THEN khook' ELSE khook
             IN  /\ \A b \in { "A", "DPAD_LEFT", "DPAD_RIGHT" } \ { DpadOf(hk[1]) } :
                       /\ (b \in report'.wButtons) <=> (b \in report.wButtons)
                       /\ (b \in committed'.wButtons) <=> (b \in committed.wButtons)
                 /\ button_pressed' = button_pressed
                 /\ kpc' = "idle" =>
                       ((DpadOf(hk[1]) \in committed'.wButtons) <=> (hk[2] = "press")) ]_vars

C14_Witness ==
    /\ ~disable_dpad
    /\ kpc = "idle"
    /\ bpc = "idle"
    /\ keyEvents = 2
    /\ keysDown = { "left" }
    /\ button_pressed
    /\ committed.wButtons = { XUSB_GAMEPAD_A, XUSB_GAMEPAD_DPAD_LEFT }

\* C15: no step of the session, of the notification handler, of the idle loop
\* or of a keyboard hook changes self.ftp, self.device_name or
\* self.threshold (nor the D-pad flag).
C15_ConfigImmutable ==
    [][ /\ ftp' = ftp
        /\ device_name' = device_name
        /\ threshold' = threshold
        /\ disable_dpad' = disable_dpad ]_vars

C15_Witness ==
    /\ stage = "Subscribed"
    /\ ~link
    /\ Len(hist) = 3
    /\ Len(cmds) = 3
    /\ keyEvents = 2
    /\ bpc = "idle"
    /\ kpc = "idle"
    /\ threshold = 50
    /\ device_name = << "K", "I", "C", "K" >>
    /\ ftp = 230

\* C16: a notification shorter than 4 bytes is handled as the sample 0 W: it
\* is recorded with power 0 and decided like any sample.  With a positive
\* threshold it starts a release when A is pressed and does nothing at all
\* when A is released (with threshold <= 0 it counts as active: a press when
\* released, nothing when pressed); once it is handled, with a positive
\* threshold, A is released and committed released, the last command, if
\* any, being a release.
C16_ShortPacketIsZeroWatts ==
    /\ [][ (Len(hist') = Len(hist) + 1 /\ Len(data') < 4) =>
             /\ power' = 0
             /\ hist' = Append(hist, 0)
             /\ threshold > 0 =>
                   IF button_pressed
                   THEN bop' = "release" /\ bpc' = "button_read"
                   ELSE /\ bop' = "none" /\ bpc' = "idle"
                        /\ cmds' = cmds /\ commits' = commits
                        /\ report' = report /\ committed' = committed
             /\ threshold <= 0 =>
                   IF button_pressed
                   THEN bop' = "none" /\ bpc' = "idle" /\ cmds' = cmds
                   ELSE bop' = "press" /\ bpc' = "button_read" ]_vars
    /\ []((bpc = "idle" /\ Len(hist) >= 1 /\ Len(data) < 4 /\ threshold > 0) =>
             /\ ~button_pressed
             /\ "A" \notin committed.wButtons
             /\ commits = Len(cmds)
             /\ Len(cmds) > 0 => cmds[Len(cmds)].op = "release")

C16_Witness ==
    /\ threshold = 50
    /\ hist = << 60, 0 >>
    /\ data = ShortPacket
    /\ bpc = "idle"
    /\ cmds = << [op |-> "press", at |-> 1], [op |-> "release", at |-> 2] >>
    /\ commits = 2
    /\ ~button_pressed
    /\ committed.wButtons = {}

\* C17 as stated: button_pressed changes only in the handler's state update,
\* the A bit of the report and of the committed report changes only in a step
\* of the handler, a release is emitted only for a sample below the
\* threshold, and while no notification is being handled a committed A press
\* stays committed, whatever the idle loop, the link or the keyboard do.
C17_AButtonOnlyInHandler ==
    [][ /\ button_pressed' # button_pressed => bpc = "set_state"
        /\ ( \/ ("A" \in report'.wButtons) # ("A" \in report.wButtons)
             \/ ("A" \in committed'.wButtons) # ("A" \in committed.wButtons) ) =>
              (bpc \in { "button_write", "update" } /\ bpc' # bpc)
        /\ (cmds' # cmds /\ bop = "release") => power < threshold
        /\ (bpc = "idle" /\ bpc' = "idle" /\ hist' = hist /\ "A" \in committed.wButtons) =>
              "A" \in committed'.wButtons ]_vars

\* C18: update_callback has been invoked once per emitted command, in order,
\* except for a command whose handling has not yet reached the callback, and
\* never for a notification without a command; invocation i received the
\* power of the notification that emitted command i and TRUE for a press,
\* FALSE for a release; and at the moment of an invocation the handler has
\* called update() for the command and button_pressed already holds the new
\* state.
C18_CallbackPerCommand ==
    /\ [](/\ bpc \in { "idle", "button_read", "button_write" } => Len(log) = Len(cmds)
          /\ bpc \in { "update", "set_state", "callback" } => Len(log) + 1 = Len(cmds)
          /\ \A i \in 1..Len(log) :
                /\ log[i].at = cmds[i].at
                /\ log[i].power = hist[cmds[i].at]
                /\ log[i].pressed = (cmds[i].op = "press")
                /\ log[i].pressed = (hist[cmds[i].at] >= threshold))
    /\ [][ log' # log =>
             /\ Len(log') = Len(log) + 1
             /\ commits = Len(cmds)
             /\ button_pressed = (cmds[Len(cmds)].op = "press")
             /\ button_pressed' = button_pressed
             /\ log'[Len(log')].pressed = button_pressed
             /\ log'[Len(log')].power = hist[Len(hist)] ]_vars

C18_Witness ==
    /\ threshold = 50
    /\ hist = << 40, 60, 40 >>
    /\ bpc = "idle"
    /\ log = << [power |-> 60, pressed |-> TRUE, at |-> 2],
                [power |-> 40, pressed |-> FALSE, at |-> 3] >>
    /\ ~disable_dpad
    /\ keyEvents = 2

====
